---- MODULE Spec2Model ----
(***************************************************************************)
(* A model of the call dispatch layer of wolfram-library-link              *)
(* (src/wolfram-library-link/src/macro_utils.rs) and of the asynchronous   *)
(* file watcher example                                                    *)
(* (src/wl-library-link/examples/async/async_file_watcher.rs).             *)
(*                                                                         *)
(* Spec        : the host issues direct-value calls, structured-transport  *)
(*               calls and initialization calls, one at a time; every      *)
(*               wrapper is modelled statement by statement.               *)
(* SpecWatcher : the host calls start_file_watcher; the spawned thread     *)
(*               runs file_watch_thread_function concurrently with the     *)
(*               host, which changes the watched file and retires the task.*)
(***************************************************************************)
EXTENDS Integers, Sequences, FiniteSets, TLC

\* ------------------------------------------------------------------------
\* Bounds of the model
\* ------------------------------------------------------------------------

\* Largest argument count the host passes to a direct-value call.
MaxArgc == 2

\* Longest inbound message (in tokens) the host puts on the link for one call.
MaxMsgLen == 2

\* Most unread tokens the link is allowed to hold (residue plus a new message).
MaxUnread == 3

\* Largest polling interval (ms) the host passes to start_file_watcher.
MaxInterval == 1

\* Largest task id the host assigns.
MaxTaskId == 2

\* Modification times are counted in ticks of 1/TicksPerSec second; the epoch
\* is tick 0, and the watched file's time ranges over -PreEpochTicks..MaxMtime.
TicksPerSec == 2

PreEpochTicks == 1

MaxMtime == 2

\* Most events the model lets the task post.
MaxEvents == 2

\* The step counters kept after retirement saturate at this value.
StepCap == 2

\* Largest number of registered LibraryLinkFunction descriptors.
MaxFuncs == 3

\* Largest number of elements of the expression the kernel replies with.
MaxContents == 2

\* ------------------------------------------------------------------------
\* Status codes
\* ------------------------------------------------------------------------

LIBRARY_NO_ERROR == 0

LIBRARY_FUNCTION_ERROR == 6

OFFSET == 1000

FAILED_TO_INIT == OFFSET + 1

FAILED_WITH_PANIC == OFFSET + 2

\* The largest value of a c_int (32 bits, two's complement).
C_INT_MAX == 2147483647

\* `x as c_int` of a c_uint x: the same 32 bits read as a signed integer, so
\* values up to C_INT_MAX are kept and larger ones wrap to x - 2^32.
AsCInt_narrow(x) == x % 256

AsCInt(x) == IF x > C_INT_MAX THEN (x - C_INT_MAX) - C_INT_MAX - 2 ELSE x

\* ------------------------------------------------------------------------
\* State
\* ------------------------------------------------------------------------
VARIABLES
    pc,           \* position of the host thread inside the current wrapper
    kind,         \* call shape: "none", "native", "wstp", "init", "loader"
                  \* or "sfw"
    argc,         \* the argument count passed to a direct-value call
    initResult,   \* result of crate::initialize in this call: "none", "ok", "err"
    argsRead,     \* the argument cells were sliced (from_raw_parts) in this call
    userCalls,    \* number of invocations of the user function in this call
    userOutcome,  \* "none", "ok", "panic": how the user function ended
    linkErr,      \* the link's error condition is set ("poisoned")
    unread,       \* unread tokens of inbound data on the link
    linkTouched,  \* some link operation was performed in this call
    recov,        \* link operations of write_panic_failure_to_link, in order
    replies,      \* what was written on the link in this call, in order
    ret,          \* <<>> while the call runs, <<status>> once it has returned
    seen,         \* {<<failure class, status>>} over all calls returned so far
    \* --- start_file_watcher and the task it spawns ---
    hostFate,     \* "running", or how a panic left an extern "C" function:
                  \* "unwound" (into the host's frames) or "aborted"; or
                  \* "aborted_precondition" (undefined behaviour trapped)
    interval,     \* args[0] of start_file_watcher: the polling interval (ms)
    pathUtf8,     \* whether args[1] of start_file_watcher is valid UTF-8
    resCell,      \* the result cell: <<>> until written, then <<task id>>
    spawned,      \* number of tasks spawned by the current call
    taskId,       \* the id the host assigned to the spawned task (0: none)
    modifiedOk,   \* whether Metadata::modified() is supported on the platform
    file,         \* the watched file: <<>> if absent, else <<modification time>>
    tpc,          \* position of the task's thread; "none" before it is spawned
    alive,        \* the task's aliveness flag, as is_alive reads it
    prev_changed, \* the thread's Option<SystemTime>: <<>> or <<time>>
    modification, \* the value check_for_modification returned: <<>> or <<secs>>
    data,         \* the thread's local DataStore: <<>> or <<[id, items]>>
    nextStore,    \* identity given to the next DataStore::new()
    events,       \* the events posted with raise_async_event, in order; the
                  \* field `time` notes the modification time reported
    lastAliveRead,\* what the thread's last is_alive read returned
    iterLog,      \* the thread's steps since its last is_alive read, in order
    pcAtRetire,   \* the thread's position when its task was retired
    after,        \* steps the thread took since its task was retired
    sleepMs,      \* durations the thread slept since its last is_alive read
    notified,     \* the modification time the last Some(..) poll reported
    missed,       \* a poll of the task found the file missing while a
                  \* modification time was recorded
    \* --- the automatic loader ---
    registry,     \* the registered LibraryLinkFunction descriptors, in the
                  \* order inventory::iter yields them
    msg,          \* the message the host put on the link for the loader call
    catalog,      \* the Expr library_function_load_expr built in this call
    lreads,       \* tokens of the message the loader closure has read
    \* --- WolframEngine::evaluate and try_evaluate ---
    debug_assertions, \* whether the build compiles debug_assert! in
    epc,          \* position inside evaluate / try_evaluate ("idle": no call)
    via,          \* the method user code called: "evaluate" or "try_evaluate"
    esteps,       \* link steps try_evaluate performed in this call, in order
    packet,       \* the expression the kernel left on the link as its reply
    return_packet,\* <<>> or <<the expression link.get_expr() returned>>
    tryResult,    \* how try_evaluate ended: none, Ok(value), Err or panic
    evalResult    \* how evaluate ended: none, value or panic

dispatchVars == <<pc, kind, argc, initResult, argsRead, userCalls, userOutcome,
                  linkErr, unread, linkTouched, recov, replies, ret, seen>>

watcherVars == <<hostFate, interval, pathUtf8, resCell, spawned, taskId,
                 modifiedOk,
                 file, tpc, alive, prev_changed, modification, data,
                 nextStore, events, lastAliveRead, iterLog, pcAtRetire,
                 after, sleepMs, notified, missed>>

loaderVars == <<registry, msg, catalog, lreads>>

engineVars == <<debug_assertions, epc, via, esteps, packet, return_packet,
                tryResult, evalResult>>

vars == <<dispatchVars, watcherVars, loaderVars, engineVars>>

FileTimes == (0 - PreEpochTicks)..MaxMtime

\* The watched file is absent (<<>>) or present with a modification time.
FileStates == {<<>>} \cup {<<t>> : t \in FileTimes}

NoSteps == [polls |-> 0, posts |-> 0, sleeps |-> 0, checks |-> 0]

\* No call has been made yet and the link is clean.
InitDispatch ==
    /\ pc = "idle"
    /\ kind = "none"
    /\ argc = 0
    /\ initResult = "none"
    /\ argsRead = FALSE
    /\ userCalls = 0
    /\ userOutcome = "none"
    /\ linkErr = FALSE
    /\ unread = 0
    /\ linkTouched = FALSE
    /\ recov = <<>>
    /\ replies = <<>>
    /\ ret = <<>>
    /\ seen = {}

\* No task has been spawned yet.
InitTask ==
    /\ hostFate = "running"
    /\ interval = 0
    /\ pathUtf8 = TRUE
    /\ resCell = <<>>
    /\ spawned = 0
    /\ taskId = 0
    /\ tpc = "none"
    /\ alive = FALSE
    /\ prev_changed = <<>>
    /\ modification = <<>>
    /\ data = <<>>
    /\ nextStore = 1
    /\ events = <<>>
    /\ lastAliveRead = "none"
    /\ iterLog = <<>>
    /\ pcAtRetire = "none"
    /\ after = NoSteps
    /\ sleepMs = <<>>
    /\ notified = <<>>
    /\ missed = FALSE

\* What the message and the catalog are while no loader call has been made.
NoMsg == [head |-> "none", args |-> <<>>]

NoCatalog == [head |-> "none", fields |-> <<>>]

\* No loader call has been made yet.
InitLoaderCall ==
    /\ msg = NoMsg
    /\ catalog = NoCatalog
    /\ lreads = 0

\* What the reply and the results are while no evaluation has been asked.
NoPacket == [kind |-> "none", head |-> "none", contents |-> <<>>]

NoResult == [tag |-> "none", value |-> "none"]

\* User code has not called evaluate or try_evaluate yet.
InitEngineCall ==
    /\ epc = "idle"
    /\ via = "none"
    /\ esteps = <<>>
    /\ packet = NoPacket
    /\ return_packet = <<>>
    /\ tryResult = NoResult
    /\ evalResult = NoResult

Init ==
    /\ InitDispatch
    /\ InitTask
    /\ modifiedOk = TRUE
    /\ file = <<>>
    /\ registry = <<>>
    /\ InitLoaderCall
    /\ debug_assertions = FALSE
    /\ InitEngineCall

\* The watched file starts in any state, on a platform that does or does not
\* support modification times.
InitWatcher ==
    /\ InitDispatch
    /\ InitTask
    /\ modifiedOk \in BOOLEAN
    /\ file \in FileStates
    /\ registry = <<>>
    /\ InitLoaderCall
    /\ debug_assertions = FALSE
    /\ InitEngineCall

\* ------------------------------------------------------------------------
\* Helpers shared by the wrappers
\* ------------------------------------------------------------------------

\* The host enters a wrapper: the per-call bookkeeping starts afresh.
BeginCall(k, n, entry) ==
    /\ pc = "idle"
    /\ pc' = entry
    /\ kind' = k
    /\ argc' = n
    /\ initResult' = "none"
    /\ argsRead' = FALSE
    /\ userCalls' = 0
    /\ userOutcome' = "none"
    /\ linkTouched' = FALSE
    /\ recov' = <<>>
    /\ replies' = <<>>
    /\ ret' = <<>>
    /\ UNCHANGED seen

\* The wrapper returns `code` to the host; `class` is the failure class of the
\* call ("none" for a call that did not fail).
Return(code, class) ==
    /\ pc' = "idle"
    /\ ret' = <<code>>
    /\ seen' = IF class = "none" THEN seen ELSE seen \cup {<<class, code>>}

\* Result<_, _>::is_err() of the value crate::initialize returned.
is_err_never(r) == FALSE

is_err(r) == r = "err"

\* The outcomes crate::initialize can have.
InitializeResults == {"ok", "err"}

\* call_and_catch_panic(f): the outcomes of running the user function under
\* fault capture: it returns normally or its panic is caught.
CatchPanicResults == {"ok", "panic"}

\* Whether a link I/O operation (raw_get_next, new_packet, put_expr) can
\* succeed: never while the error condition is set, and it may fail otherwise.
LinkOpResults == IF linkErr THEN {FALSE} ELSE BOOLEAN

\* ------------------------------------------------------------------------
\* The host's calls
\* ------------------------------------------------------------------------

\* An export!-generated wrapper is called with argc argument cells.
HostCallsNative ==
    /\ \E n \in -1..MaxArgc : BeginCall("native", n, "initialize")
    /\ UNCHANGED <<linkErr, unread>>
    /\ UNCHANGED <<watcherVars, loaderVars, engineVars>>

\* A structured-transport wrapper is called; the host has put one message of
\* n tokens on the link.
HostCallsWstp ==
    /\ \E n \in 1..MaxMsgLen :
        /\ unread + n <= MaxUnread
        /\ BeginCall("wstp", 0, "initialize")
        /\ unread' = unread + n
    /\ UNCHANGED linkErr
    /\ UNCHANGED <<watcherVars, loaderVars, engineVars>>

\* The library's initialization entry point is called.
HostCallsInit ==
    /\ BeginCall("init", 0, "initialize")
    /\ UNCHANGED <<linkErr, unread>>
    /\ UNCHANGED <<watcherVars, loaderVars, engineVars>>

\* ------------------------------------------------------------------------
\* crate::initialize, the first statement of every wrapper
\* ------------------------------------------------------------------------

\* The status a wrapper returns when initialize failed.
InitFailedStatus(k) ==
    IF k = "init" THEN AsCInt(FAILED_TO_INIT) ELSE FAILED_TO_INIT

\* Where each wrapper continues after a successful initialize.
AfterInitialize(k) ==
    CASE k = "native" -> "n_argc"
      [] k = "wstp"   -> "w_call"
      [] k = "init"   -> "i_call"
      [] k = "loader" -> "l_test_head"

initialize ==
    /\ pc = "initialize"
    /\ \E r \in InitializeResults :
        /\ initResult' = r
        /\ IF is_err(r)
             THEN Return(InitFailedStatus(kind), "init")
             ELSE /\ pc' = AfterInitialize(kind)
                  /\ UNCHANGED <<ret, seen>>
    /\ UNCHANGED <<kind, argc, argsRead, userCalls, userOutcome, linkErr,
                   unread, linkTouched, recov, replies>>
    /\ UNCHANGED <<watcherVars, loaderVars, engineVars>>

\* ------------------------------------------------------------------------
\* call_native_wolfram_library_function
\* ------------------------------------------------------------------------

\* Whether usize::try_from(argc) is Err: a negative mint has no usize value.
usize_try_from_is_err_never(n) == FALSE

usize_try_from_is_err(n) == n < 0

\* usize::try_from(argc), then the argument cells are sliced.
native_argc ==
    /\ pc = "n_argc"
    /\ IF usize_try_from_is_err(argc)
         THEN /\ Return(LIBRARY_FUNCTION_ERROR, "arity")
              /\ UNCHANGED argsRead
         ELSE /\ argsRead' = TRUE
              /\ pc' = "n_call"
              /\ UNCHANGED <<ret, seen>>
    /\ UNCHANGED <<kind, argc, initResult, userCalls, userOutcome, linkErr,
                   unread, linkTouched, recov, replies>>
    /\ UNCHANGED <<watcherVars, loaderVars, engineVars>>

\* The status returned when the user function of a direct-value call panicked.
NativePanicStatus_generic == LIBRARY_FUNCTION_ERROR

NativePanicStatus == FAILED_WITH_PANIC

\* call_and_catch_panic(func.call(args, res)) and the final status.
native_call ==
    /\ pc = "n_call"
    /\ \E o \in CatchPanicResults :
        /\ userOutcome' = o
        /\ IF o = "panic"
             THEN Return(NativePanicStatus, "fault")
             ELSE Return(LIBRARY_NO_ERROR, "none")
    /\ userCalls' = userCalls + 1
    /\ UNCHANGED <<kind, argc, initResult, argsRead, linkErr, unread,
                   linkTouched, recov, replies>>
    /\ UNCHANGED <<watcherVars, loaderVars, engineVars>>

\* ------------------------------------------------------------------------
\* init_with_user_function
\* ------------------------------------------------------------------------

init_call ==
    /\ pc = "i_call"
    /\ \E o \in CatchPanicResults :
        /\ userOutcome' = o
        /\ IF o = "panic"
             THEN Return(AsCInt(FAILED_WITH_PANIC), "fault")
             ELSE Return(AsCInt(LIBRARY_NO_ERROR), "none")
    /\ userCalls' = userCalls + 1
    /\ UNCHANGED <<kind, argc, initResult, argsRead, linkErr, unread,
                   linkTouched, recov, replies>>
    /\ UNCHANGED <<watcherVars, loaderVars, engineVars>>

\* ------------------------------------------------------------------------
\* call_wstp_link_wolfram_library_function
\* ------------------------------------------------------------------------

\* Where the wrapper continues when the user function's panic was caught:
\* the first statement of write_panic_failure_to_link.
WriteFailureEntry_put_first == "w_put_expr"

WriteFailureEntry == "w_clear_error"

\* The status returned when write_panic_failure_to_link returned Err.
WstpReportFailedStatus_panic == FAILED_WITH_PANIC

WstpReportFailedStatus == LIBRARY_FUNCTION_ERROR

\* `match result { Ok(()) => .., Err(panic) => .. }`: whether the result of
\* call_and_catch_panic is the Err arm.
result_is_err_always(o) == TRUE

result_is_err(o) == o = "panic"

\* call_and_catch_panic(function(link)): the user function reads k tokens of
\* the inbound data, may have a link operation fail on it (which sets the
\* link's error condition), may write its result, and returns or panics.
\* On a link whose error condition is already set it can read and write
\* nothing.
wstp_call ==
    /\ pc = "w_call"
    /\ \E k \in 0..unread, poison \in BOOLEAN, wrote \in BOOLEAN,
          o \in CatchPanicResults :
        /\ linkErr => (k = 0 /\ ~wrote)
        /\ unread' = unread - k
        /\ linkErr' = (linkErr \/ poison)
        /\ replies' = IF wrote THEN <<"result">> ELSE <<>>
        /\ linkTouched' = (k > 0 \/ poison \/ wrote)
        /\ userOutcome' = o
        /\ IF result_is_err(o)
             THEN /\ pc' = WriteFailureEntry
                  /\ UNCHANGED <<ret, seen>>
             ELSE Return(LIBRARY_NO_ERROR, "none")
    /\ userCalls' = userCalls + 1
    /\ UNCHANGED <<kind, argc, initResult, argsRead, recov>>
    /\ UNCHANGED <<watcherVars, loaderVars, engineVars>>

\* write_panic_failure_to_link: link.clear_error()
write_panic_clear_error ==
    /\ pc = "w_clear_error"
    /\ linkErr' = FALSE
    /\ recov' = Append(recov, <<"clear_error", TRUE>>)
    /\ linkTouched' = TRUE
    /\ pc' = "w_is_ready"
    /\ UNCHANGED <<kind, argc, initResult, argsRead, userCalls, userOutcome,
                   unread, replies, ret, seen>>
    /\ UNCHANGED <<watcherVars, loaderVars, engineVars>>

\* write_panic_failure_to_link: if link.is_ready() { ... }
write_panic_is_ready ==
    /\ pc = "w_is_ready"
    /\ recov' = Append(recov, <<"is_ready", unread > 0>>)
    /\ linkTouched' = TRUE
    /\ pc' = IF unread > 0 THEN "w_raw_get_next" ELSE "w_put_expr"
    /\ UNCHANGED <<kind, argc, initResult, argsRead, userCalls, userOutcome,
                   linkErr, unread, replies, ret, seen>>
    /\ UNCHANGED <<watcherVars, loaderVars, engineVars>>

\* write_panic_failure_to_link: link.raw_get_next()?
write_panic_raw_get_next ==
    /\ pc = "w_raw_get_next"
    /\ \E ok \in LinkOpResults :
        /\ recov' = Append(recov, <<"raw_get_next", ok>>)
        /\ IF ok
             THEN /\ unread' = IF unread > 0 THEN unread - 1 ELSE 0
                  /\ pc' = "w_new_packet"
                  /\ UNCHANGED <<linkErr, ret, seen>>
             ELSE /\ linkErr' = TRUE
                  /\ Return(WstpReportFailedStatus, "transport")
                  /\ UNCHANGED unread
    /\ linkTouched' = TRUE
    /\ UNCHANGED <<kind, argc, initResult, argsRead, userCalls, userOutcome,
                   replies>>
    /\ UNCHANGED <<watcherVars, loaderVars, engineVars>>

\* write_panic_failure_to_link: link.new_packet()?
write_panic_new_packet ==
    /\ pc = "w_new_packet"
    /\ \E ok \in LinkOpResults :
        /\ recov' = Append(recov, <<"new_packet", ok>>)
        /\ IF ok
             THEN /\ unread' = 0
                  /\ pc' = "w_put_expr"
                  /\ UNCHANGED <<linkErr, ret, seen>>
             ELSE /\ linkErr' = TRUE
                  /\ Return(WstpReportFailedStatus, "transport")
                  /\ UNCHANGED unread
    /\ linkTouched' = TRUE
    /\ UNCHANGED <<kind, argc, initResult, argsRead, userCalls, userOutcome,
                   replies>>
    /\ UNCHANGED <<watcherVars, loaderVars, engineVars>>

\* write_panic_failure_to_link: link.put_expr(&caught_panic.to_pretty_expr())
write_panic_put_expr ==
    /\ pc = "w_put_expr"
    /\ \E ok \in LinkOpResults :
        /\ recov' = Append(recov, <<"put_expr", ok>>)
        /\ IF ok
             THEN /\ replies' = Append(replies, "failure")
                  /\ Return(LIBRARY_NO_ERROR, "fault")
                  /\ UNCHANGED linkErr
             ELSE /\ linkErr' = TRUE
                  /\ Return(WstpReportFailedStatus, "transport")
                  /\ UNCHANGED replies
    /\ linkTouched' = TRUE
    /\ UNCHANGED <<kind, argc, initResult, argsRead, userCalls, userOutcome,
                   unread>>
    /\ UNCHANGED <<watcherVars, loaderVars, engineVars>>

\* ------------------------------------------------------------------------
\* The automatic loader: load_library_functions_impl
\* ------------------------------------------------------------------------

\* The LibraryLinkFunction values that can be registered: Native with a
\* signature() that returns Ok or Err, and Wstp.
DescriptorShapes ==
    {[variant |-> "Native", signature |-> "Ok"],
     [variant |-> "Native", signature |-> "Err"],
     [variant |-> "Wstp", signature |-> "none"]}

\* The registries of up to MaxFuncs descriptors; the i-th registered function
\* has the name i (exported names are unique).
Registries ==
    UNION {
      {[i \in 1..n |-> [variant |-> f[i].variant, name |-> i,
                        signature |-> f[i].signature]] :
         f \in [1..n -> DescriptorShapes]} :
      n \in 0..MaxFuncs}

\* The argument lists a message on the link can carry.
MsgArgs == UNION {[1..n -> {"String", "Integer"}] : n \in 0..MaxMsgLen}

\* The library is loaded with its registry collected, and no call made yet.
InitLoader ==
    /\ InitDispatch
    /\ InitTask
    /\ modifiedOk = TRUE
    /\ file = <<>>
    /\ registry \in Registries
    /\ InitLoaderCall
    /\ debug_assertions = FALSE
    /\ InitEngineCall

\* The host calls the loader entry point with one message on an otherwise
\* empty link: an expression with a head and some arguments.
HostCallsLoader ==
    /\ unread = 0
    /\ \E h \in {"List", "Other"}, a \in MsgArgs :
        /\ 1 + Len(a) <= MaxUnread
        /\ BeginCall("loader", 0, "initialize")
        /\ msg' = [head |-> h, args |-> a]
        /\ unread' = 1 + Len(a)
    /\ catalog' = NoCatalog
    /\ lreads' = 0
    /\ UNCHANGED <<linkErr, registry>>
    /\ UNCHANGED <<watcherVars, engineVars>>

\* LibraryLinkFunction::loading_code: Err when a Native function's
\* signature() is Err, else the code that loads the function.
loading_code(func, library) ==
    IF func.variant = "Native"
      THEN IF func.signature = "Err"
             THEN [ok |-> FALSE, head |-> "none"]
             ELSE [ok |-> TRUE, head |-> "LibraryFunctionLoad"]
      ELSE [ok |-> TRUE, head |-> "With"]

\* The body of the loop of library_function_load_expr for one descriptor:
\* `Err(_) => continue`, else a Rule[name, code] is pushed.
push_field_always(fields, func, library) ==
    Append(fields, [head |-> "Rule", name |-> func.name,
                    code |-> loading_code(func, library).head,
                    library |-> library])

push_field(fields, func, library) ==
    IF loading_code(func, library).ok
      THEN Append(fields, [head |-> "Rule", name |-> func.name,
                           code |-> loading_code(func, library).head,
                           library |-> library])
      ELSE fields

RECURSIVE load_fields(_, _, _)
\* for func in inventory::iter::<LibraryLinkFunction> { .. }
load_fields(funcs, library, fields) ==
    IF funcs = <<>>
      THEN fields
      ELSE load_fields(Tail(funcs), library,
                       push_field(fields, Head(funcs), library))

library_function_load_expr(library) ==
    [head |-> "Association", fields |-> load_fields(registry, library, <<>>)]

\* The closure panics: call_and_catch_panic returns Err and the wrapper goes
\* on to write_panic_failure_to_link.
LoaderPanics ==
    /\ userOutcome' = "panic"
    /\ pc' = WriteFailureEntry
    /\ UNCHANGED <<ret, seen>>

\* A link read that failed: the error condition is set, and the token it was
\* reading may or may not have been taken off the link.
FailedRead ==
    /\ linkErr' = TRUE
    /\ \E k \in 0..1 :
        /\ k <= unread
        /\ linkErr => k = 0
        /\ unread' = unread - k
        /\ lreads' = lreads + k

\* link.test_head("List").expect("expected 'List' expression")
loader_test_head ==
    /\ pc = "l_test_head"
    /\ \E ok \in LinkOpResults :
        IF ok /\ msg.head = "List"
          THEN /\ unread' = unread - 1
               /\ lreads' = lreads + 1
               /\ pc' = "l_arg_count"
               /\ UNCHANGED <<linkErr, userOutcome, ret, seen>>
          ELSE /\ FailedRead
               /\ LoaderPanics
    /\ userCalls' = userCalls + 1
    /\ linkTouched' = TRUE
    /\ UNCHANGED <<kind, argc, initResult, argsRead, recov, replies>>
    /\ UNCHANGED <<registry, msg, catalog>>
    /\ UNCHANGED <<watcherVars, engineVars>>

\* The argument counts the loader accepts: `if arg_count != 1 { panic!(..) }`.
arg_count_accepted_any(arg_count) == TRUE

arg_count_accepted(arg_count) == arg_count = 1

loader_arg_count ==
    /\ pc = "l_arg_count"
    /\ IF arg_count_accepted(Len(msg.args))
         THEN /\ pc' = "l_get_string"
              /\ UNCHANGED <<userOutcome, ret, seen>>
         ELSE LoaderPanics
    /\ UNCHANGED <<kind, argc, initResult, argsRead, userCalls, linkErr,
                   unread, linkTouched, recov, replies>>
    /\ UNCHANGED loaderVars
    /\ UNCHANGED <<watcherVars, engineVars>>

\* match link.get_string_ref() { Ok(value) => value, Err(err) => panic!(..) }
loader_get_string ==
    /\ pc = "l_get_string"
    /\ \E ok \in LinkOpResults :
        IF ok /\ Len(msg.args) >= 1 /\ msg.args[1] = "String"
          THEN /\ unread' = unread - 1
               /\ lreads' = lreads + 1
               /\ pc' = "l_load_expr"
               /\ UNCHANGED <<linkErr, userOutcome, ret, seen>>
          ELSE /\ FailedRead
               /\ LoaderPanics
    /\ UNCHANGED <<kind, argc, initResult, argsRead, userCalls, linkTouched,
                   recov, replies>>
    /\ UNCHANGED <<registry, msg, catalog>>
    /\ UNCHANGED <<watcherVars, engineVars>>

\* let expr = library_function_load_expr(path);
loader_load_expr ==
    /\ pc = "l_load_expr"
    /\ catalog' = library_function_load_expr("library")
    /\ pc' = "l_put_expr"
    /\ UNCHANGED <<kind, argc, initResult, argsRead, userCalls, userOutcome,
                   linkErr, unread, linkTouched, recov, replies, ret, seen>>
    /\ UNCHANGED <<registry, msg, lreads>>
    /\ UNCHANGED <<watcherVars, engineVars>>

\* link.put_expr(&expr).expect("failed to write loader Association"); the
\* closure then returns and the wrapper returns LIBRARY_NO_ERROR.
loader_put_expr ==
    /\ pc = "l_put_expr"
    /\ \E ok \in LinkOpResults :
        IF ok
          THEN /\ replies' = Append(replies, "catalog")
               /\ userOutcome' = "ok"
               /\ Return(LIBRARY_NO_ERROR, "none")
               /\ UNCHANGED linkErr
          ELSE /\ linkErr' = TRUE
               /\ LoaderPanics
               /\ UNCHANGED replies
    /\ linkTouched' = TRUE
    /\ UNCHANGED <<kind, argc, initResult, argsRead, userCalls, unread, recov>>
    /\ UNCHANGED loaderVars
    /\ UNCHANGED <<watcherVars, engineVars>>

\* ------------------------------------------------------------------------
\* start_file_watcher (a hand-written extern "C" entry point)
\* ------------------------------------------------------------------------

\* The number of argument cells start_file_watcher expects.
SfwArity == 2

\* What is left unchanged by every step of the start_file_watcher call.
sfwFrame ==
    UNCHANGED <<userCalls, userOutcome, linkErr, unread, linkTouched, recov,
                replies, modifiedOk, file, prev_changed, modification, data,
                nextStore, events, lastAliveRead, iterLog, pcAtRetire, after,
                sleepMs, notified, missed, loaderVars, engineVars>>

\* The host calls start_file_watcher(lib_data, arg_count, args, res). The
\* model follows one task: the call is made while no task has been spawned.
HostCallsStartFileWatcher ==
    /\ hostFate = "running"
    /\ tpc = "none"
    /\ \E n \in -1..(MaxArgc + 1), iv \in -1..MaxInterval, utf \in BOOLEAN :
        /\ BeginCall("sfw", n, "s_args")
        /\ interval' = iv
        /\ pathUtf8' = utf
    /\ resCell' = <<>>
    /\ spawned' = 0
    /\ UNCHANGED <<linkErr, unread, hostFate, taskId, modifiedOk, file, tpc,
                   alive, prev_changed, modification, data, nextStore, events,
                   lastAliveRead, iterLog, pcAtRetire, after, sleepMs,
                   notified, missed, loaderVars, engineVars>>

\* What slice::from_raw_parts(args, arg_count as usize) can do when arg_count
\* is negative: the length is above isize::MAX, which is undefined behaviour;
\* a build either goes on with a slice of that length or aborts on the
\* violated precondition.
OversizedSliceOutcomes == {"continues", "aborts"}

\* from_raw_parts(args, arg_count as usize); if args.len() != 2 { return .. }
sfw_args ==
    /\ hostFate = "running"
    /\ pc = "s_args"
    /\ IF argc < 0
         THEN \E o \in OversizedSliceOutcomes :
                IF o = "aborts"
                  THEN /\ hostFate' = "aborted_precondition"
                       /\ pc' = "crashed"
                       /\ UNCHANGED <<argsRead, ret, seen>>
                  ELSE /\ argsRead' = TRUE
                       /\ Return(LIBRARY_FUNCTION_ERROR, "none")
                       /\ UNCHANGED hostFate
         ELSE /\ argsRead' = TRUE
              /\ UNCHANGED hostFate
              /\ IF argc # SfwArity
                   THEN Return(LIBRARY_FUNCTION_ERROR, "none")
                   ELSE /\ pc' = "s_init"
                        /\ UNCHANGED <<ret, seen>>
    /\ UNCHANGED <<kind, argc, initResult, interval, pathUtf8, resCell,
                   spawned, taskId, tpc, alive>>
    /\ sfwFrame

\* if wll::initialize(lib_data).is_err() { return LIBRARY_FUNCTION_ERROR; }
sfw_initialize ==
    /\ hostFate = "running"
    /\ pc = "s_init"
    /\ \E r \in InitializeResults :
        /\ initResult' = r
        /\ IF is_err(r)
             THEN Return(LIBRARY_FUNCTION_ERROR, "none")
             ELSE /\ pc' = "s_interval"
                  /\ UNCHANGED <<ret, seen>>
    /\ UNCHANGED <<kind, argc, argsRead, hostFate, interval, pathUtf8,
                   resCell, spawned, taskId, tpc, alive>>
    /\ sfwFrame

\* How a panic leaves an extern "C" function that does not catch it: it
\* unwinds into the caller's frames, or the process is aborted.
EscapedPanicFates == {"unwound", "aborted"}

\* u64::try_from(*args[0].integer).expect("i64 interval overflows u64")
sfw_interval ==
    /\ hostFate = "running"
    /\ pc = "s_interval"
    /\ IF interval < 0
         THEN /\ \E f \in EscapedPanicFates : hostFate' = f
              /\ pc' = "crashed"
         ELSE /\ pc' = "s_path"
              /\ UNCHANGED hostFate
    /\ UNCHANGED <<kind, argc, initResult, argsRead, ret, seen, interval,
                   pathUtf8, resCell, spawned, taskId, tpc, alive>>
    /\ sfwFrame

\* match path.to_str() { Ok(s) => .., Err(_) => return LIBRARY_FUNCTION_ERROR }
sfw_path ==
    /\ hostFate = "running"
    /\ pc = "s_path"
    /\ IF pathUtf8
         THEN /\ pc' = "s_spawn"
              /\ UNCHANGED <<ret, seen>>
         ELSE Return(LIBRARY_FUNCTION_ERROR, "none")
    /\ UNCHANGED <<kind, argc, initResult, argsRead, hostFate, interval,
                   pathUtf8, resCell, spawned, taskId, tpc, alive>>
    /\ sfwFrame

\* wll::spawn_async_task_with_thread(..): the host assigns the task's id, the
\* task is alive and its thread starts file_watch_thread_function.
sfw_spawn ==
    /\ hostFate = "running"
    /\ pc = "s_spawn"
    /\ \E id \in 1..MaxTaskId : taskId' = id
    /\ spawned' = spawned + 1
    /\ tpc' = "t_start"
    /\ alive' = TRUE
    /\ pc' = "s_res"
    /\ UNCHANGED <<kind, argc, initResult, argsRead, ret, seen, hostFate,
                   interval, pathUtf8, resCell>>
    /\ sfwFrame

\* The value of start_file_watcher's final expression, returned after the
\* spawn.
StatusAfterSpawn_error == LIBRARY_FUNCTION_ERROR

StatusAfterSpawn == LIBRARY_NO_ERROR

\* *res.integer = task_id.id(); LIBRARY_NO_ERROR
sfw_return_after_first_step ==
    /\ hostFate = "running"
    /\ pc = "s_res"
    /\ tpc # "t_start"
    /\ resCell' = <<taskId>>
    /\ Return(StatusAfterSpawn, "none")
    /\ UNCHANGED <<kind, argc, initResult, argsRead, hostFate, interval,
                   pathUtf8, spawned, taskId, tpc, alive>>
    /\ sfwFrame

sfw_return ==
    /\ hostFate = "running"
    /\ pc = "s_res"
    /\ resCell' = <<taskId>>
    /\ Return(StatusAfterSpawn, "none")
    /\ UNCHANGED <<kind, argc, initResult, argsRead, hostFate, interval,
                   pathUtf8, spawned, taskId, tpc, alive>>
    /\ sfwFrame

\* ------------------------------------------------------------------------
\* file_watch_thread_function (the task's background thread)
\* ------------------------------------------------------------------------

\* What a step of the thread leaves unchanged: the host's call and the file.
threadFrame ==
    UNCHANGED <<dispatchVars, hostFate, interval, pathUtf8, resCell, spawned,
                taskId, modifiedOk, file, alive, pcAtRetire, loaderVars,
                engineVars>>

\* One more step of kind `f` by the thread, counted once its task is retired.
Count(f) ==
    IF alive
      THEN after
      ELSE [after EXCEPT ![f] = IF @ < StepCap THEN @ + 1 ELSE @]

\* fs::metadata(path).and_then(|m| m.modified()).ok(): the file's
\* modification time, or None when the file is absent or the platform has none.
modified(f) == IF f # <<>> /\ modifiedOk THEN f ELSE <<>>

\* time.duration_since(UNIX_EPOCH) is an error for a time before the epoch;
\* Duration::as_secs keeps the whole seconds.
since_epoch(t) == IF t < 0 THEN <<>> ELSE <<t \div TicksPerSec>>

\* The closure check_for_modification: what it returns (<<>> for None, else
\* <<seconds>>) and the value it leaves in prev_changed.
check_for_modification_forgets(prev, f) ==
    LET latest == modified(f) IN
    CASE prev # <<>> /\ f # <<>> ->
           IF latest = <<>>
             THEN [result |-> <<>>, prev |-> prev]
             ELSE IF prev # latest
               THEN [result |-> since_epoch(latest[1]), prev |-> latest]
               ELSE [result |-> <<>>, prev |-> prev]
      [] prev # <<>> /\ f = <<>> ->
           [result |-> <<>>, prev |-> <<>>]
      [] prev = <<>> /\ f # <<>> ->
           [result |-> IF latest = <<>> THEN <<>> ELSE since_epoch(latest[1]),
            prev |-> prev]
      [] OTHER ->
           [result |-> <<>>, prev |-> prev]

check_for_modification(prev, f) ==
    LET latest == modified(f) IN
    CASE prev # <<>> /\ f # <<>> ->
           IF latest = <<>>
             THEN [result |-> <<>>, prev |-> prev]
             ELSE IF prev # latest
               THEN [result |-> since_epoch(latest[1]), prev |-> latest]
               ELSE [result |-> <<>>, prev |-> prev]
      [] prev # <<>> /\ f = <<>> ->
           [result |-> <<>>, prev |-> prev]
      [] prev = <<>> /\ f # <<>> ->
           [result |-> IF latest = <<>> THEN <<>> ELSE since_epoch(latest[1]),
            prev |-> prev]
      [] OTHER ->
           [result |-> <<>>, prev |-> prev]

\* Where the loop continues after is_alive returned a.
AfterAliveCheck_ignore(a) == "t_poll"

AfterAliveCheck(a) == IF a THEN "t_poll" ELSE "t_done"

\* The first statement of the loop body, where every iteration starts.
LoopEntry_poll == "t_poll"

LoopEntry == "t_alive"

\* Where the loop body continues after check_for_modification returned r:
\* into the `if let Some(..)` block, or past it to the sleep.
AfterCheck_continue(r) == IF r # <<>> THEN "t_new" ELSE "t_alive"

AfterCheck(r) == IF r # <<>> THEN "t_new" ELSE "t_sleep"

\* let mut prev_changed = fs::metadata(path).and_then(..).ok();
thread_start ==
    /\ hostFate = "running"
    /\ tpc = "t_start"
    /\ prev_changed' = modified(file)
    /\ tpc' = LoopEntry
    /\ UNCHANGED <<modification, data, nextStore, events, lastAliveRead,
                   iterLog, after, sleepMs, notified, missed>>
    /\ threadFrame

\* loop { if !async_object.is_alive() { break; } ..
thread_is_alive ==
    /\ hostFate = "running"
    /\ tpc = "t_alive"
    /\ lastAliveRead' = IF alive THEN "true" ELSE "false"
    /\ tpc' = AfterAliveCheck(alive)
    /\ iterLog' = <<"is_alive">>
    /\ sleepMs' = <<>>
    /\ after' = Count("checks")
    /\ UNCHANGED <<prev_changed, modification, data, nextStore, events,
                   notified, missed>>
    /\ threadFrame

\* if let Some(modification) = check_for_modification() { .. }
\* The model follows a live task until it has posted MaxEvents events, and a
\* retired task for one event more (the iteration in flight at retirement).
thread_check_for_modification ==
    /\ hostFate = "running"
    /\ tpc = "t_poll"
    /\ (Len(events) < MaxEvents \/ (~alive /\ Len(events) <= MaxEvents))
    /\ LET r == check_for_modification(prev_changed, file) IN
        /\ prev_changed' = r.prev
        /\ modification' = r.result
        /\ notified' = IF r.result # <<>> THEN modified(file) ELSE notified
        /\ missed' = (missed \/ (file = <<>> /\ prev_changed # <<>>))
        /\ tpc' = AfterCheck(r.result)
    /\ iterLog' = Append(iterLog, "check_for_modification")
    /\ after' = Count("polls")
    /\ UNCHANGED <<data, nextStore, events, lastAliveRead, sleepMs>>
    /\ threadFrame

\* DataStore::new(): an empty store of its own; n is the identity of the
\* allocation.
DataStore_new_shared(n) == [id |-> 1, items |-> <<>>]

DataStore_new(n) == [id |-> n, items |-> <<>>]

\* let mut data = DataStore::new();
thread_data_store_new ==
    /\ hostFate = "running"
    /\ tpc = "t_new"
    /\ data' = <<DataStore_new(nextStore)>>
    /\ nextStore' = nextStore + 1
    /\ tpc' = "t_add"
    /\ iterLog' = Append(iterLog, "DataStore::new")
    /\ UNCHANGED <<prev_changed, modification, events, lastAliveRead, after,
                   sleepMs, notified, missed>>
    /\ threadFrame

\* data.add_i64(modification as i64);
thread_add_i64 ==
    /\ hostFate = "running"
    /\ tpc = "t_add"
    /\ data' = <<[data[1] EXCEPT !.items = Append(@, modification[1])]>>
    /\ tpc' = "t_raise"
    /\ iterLog' = Append(iterLog, "add_i64")
    /\ UNCHANGED <<prev_changed, modification, nextStore, events,
                   lastAliveRead, after, sleepMs, notified, missed>>
    /\ threadFrame

\* async_object.raise_async_event("change", data): the store is moved into
\* the event.
thread_raise_async_event ==
    /\ hostFate = "running"
    /\ tpc = "t_raise"
    /\ events' = Append(events, [name |-> "change", store |-> data[1].id,
                                 items |-> data[1].items,
                                 time |-> notified[1]])
    /\ data' = <<>>
    /\ modification' = <<>>
    /\ tpc' = "t_sleep"
    /\ iterLog' = Append(iterLog, "raise_async_event")
    /\ after' = Count("posts")
    /\ UNCHANGED <<prev_changed, nextStore, lastAliveRead, sleepMs, notified, missed>>
    /\ threadFrame

\* std::thread::sleep(Duration::from_millis(pause_interval_ms)); } (loop)
thread_sleep ==
    /\ hostFate = "running"
    /\ tpc = "t_sleep"
    /\ tpc' = "t_alive"
    /\ iterLog' = Append(iterLog, "sleep")
    /\ sleepMs' = Append(sleepMs, interval)
    /\ after' = Count("sleeps")
    /\ UNCHANGED <<prev_changed, modification, data, nextStore, events,
                   lastAliveRead, notified, missed>>
    /\ threadFrame

\* One step of the task's thread, whichever it is.
file_watch_thread_function ==
    \/ thread_start
    \/ thread_is_alive
    \/ thread_check_for_modification
    \/ thread_data_store_new
    \/ thread_add_i64
    \/ thread_raise_async_event
    \/ thread_sleep

\* ------------------------------------------------------------------------
\* The environment of the task: the host and the file system
\* ------------------------------------------------------------------------

envFrame ==
    UNCHANGED <<dispatchVars, hostFate, interval, pathUtf8, resCell, spawned,
                taskId, modifiedOk, tpc, prev_changed, modification, data,
                nextStore, events, lastAliveRead, iterLog, sleepMs,
                notified, missed, loaderVars, engineVars>>

\* The host retires the task whose id start_file_watcher returned: its
\* aliveness becomes false.
HostRetiresTask ==
    /\ hostFate = "running"
    /\ pc = "idle"
    /\ tpc # "none"
    /\ alive
    /\ alive' = FALSE
    /\ pcAtRetire' = tpc
    /\ UNCHANGED <<file, after>>
    /\ envFrame

\* The watched file is written (or created) with a new modification time.
FileModified ==
    /\ hostFate = "running"
    /\ \E t \in FileTimes :
        /\ file # <<t>>
        /\ file' = <<t>>
    /\ UNCHANGED <<alive, pcAtRetire, after>>
    /\ envFrame

\* The watched file is removed.
FileRemoved ==
    /\ hostFate = "running"
    /\ file # <<>>
    /\ file' = <<>>
    /\ UNCHANGED <<alive, pcAtRetire, after>>
    /\ envFrame

\* ------------------------------------------------------------------------
\* WolframEngine::evaluate and WolframEngine::try_evaluate
\* ------------------------------------------------------------------------

\* The expressions the kernel can leave on the link: a Normal expression
\* with a head and up to MaxContents elements, or an atom.
ContentSeqs == UNION {[1..n -> {"a", "b"}] : n \in 0..MaxContents}

Packets ==
    {[kind |-> "Normal", head |-> h, contents |-> c] :
       h \in {"ReturnPacket", "Other"}, c \in ContentSeqs}
    \cup {[kind |-> k, head |-> "none", contents |-> <<>>] :
            k \in {"Symbol", "Integer"}}

\* The library is built with or without debug assertions; no evaluation has
\* been asked yet.
InitEngine ==
    /\ InitDispatch
    /\ InitTask
    /\ modifiedOk = TRUE
    /\ file = <<>>
    /\ registry = <<>>
    /\ InitLoaderCall
    /\ debug_assertions \in BOOLEAN
    /\ InitEngineCall

\* What every step of an evaluation leaves unchanged.
engineFrame ==
    UNCHANGED <<dispatchVars, watcherVars, loaderVars, debug_assertions>>

\* User code calls engine.evaluate(expr) or engine.try_evaluate(expr).
UserCallsEvaluate ==
    /\ epc = "idle"
    /\ \E m \in {"evaluate", "try_evaluate"} : via' = m
    /\ epc' = "e_put_expr"
    /\ esteps' = <<>>
    /\ packet' = NoPacket
    /\ return_packet' = <<>>
    /\ tryResult' = NoResult
    /\ evalResult' = NoResult
    /\ engineFrame

\* try_evaluate ends with `result`: a value returned to its caller (to
\* evaluate's match when called through evaluate), or a panic, which unwinds
\* through evaluate as well.
TryEvaluateEnds(result) ==
    /\ tryResult' = result
    /\ IF via = "evaluate"
         THEN IF result.tag = "panic"
                THEN /\ epc' = "idle"
                     /\ evalResult' = result
                ELSE /\ epc' = "e_evaluate_match"
                     /\ UNCHANGED evalResult
         ELSE /\ epc' = "idle"
              /\ UNCHANGED evalResult

\* link.put_expr(&Expr! { EvaluatePacket['expr] }).map_err(..)?
try_evaluate_put_expr ==
    /\ epc = "e_put_expr"
    /\ \E ok \in BOOLEAN :
        /\ esteps' = Append(esteps, <<"put_expr", ok>>)
        /\ IF ok
             THEN /\ epc' = "e_process"
                  /\ UNCHANGED <<tryResult, evalResult>>
             ELSE TryEvaluateEnds([tag |-> "Err", value |-> "put_expr"])
    /\ UNCHANGED <<via, packet, return_packet>>
    /\ engineFrame

\* self.process_wstp_link(&link)?: the kernel processes the packet and
\* leaves its reply on the link; code 0 is an error.
process_wstp_link ==
    /\ epc = "e_process"
    /\ \E code \in 0..1 :
        /\ esteps' = Append(esteps, <<"processWSLINK", code # 0>>)
        /\ IF code = 0
             THEN /\ TryEvaluateEnds([tag |-> "Err", value |-> "processWSLINK"])
                  /\ UNCHANGED packet
             ELSE /\ \E p \in Packets : packet' = p
                  /\ epc' = "e_get_expr"
                  /\ UNCHANGED <<tryResult, evalResult>>
    /\ UNCHANGED <<via, return_packet>>
    /\ engineFrame

\* let return_packet: Expr = link.get_expr().map_err(..)?
try_evaluate_get_expr ==
    /\ epc = "e_get_expr"
    /\ \E ok \in BOOLEAN :
        /\ esteps' = Append(esteps, <<"get_expr", ok>>)
        /\ IF ok
             THEN /\ return_packet' = <<packet>>
                  /\ epc' = "e_match_kind"
                  /\ UNCHANGED <<tryResult, evalResult>>
             ELSE /\ TryEvaluateEnds([tag |-> "Err", value |-> "get_expr"])
                  /\ UNCHANGED return_packet
    /\ UNCHANGED <<via, packet>>
    /\ engineFrame

\* match return_packet.kind() { ExprKind::Normal(normal) => { debug_assert!
\* (head is ReturnPacket); debug_assert!(len == 1); normal.contents[0] },
\* _ => return Err(..) }: the value try_evaluate ends with for expression e.
match_kind(e) ==
    IF e.kind = "Normal"
      THEN IF debug_assertions
                /\ (e.head # "ReturnPacket" \/ Len(e.contents) # 1)
             THEN [tag |-> "panic", value |-> "debug_assert"]
             ELSE IF Len(e.contents) = 0
               THEN [tag |-> "panic", value |-> "index out of bounds"]
               ELSE [tag |-> "Ok", value |-> e.contents[1]]
      ELSE [tag |-> "Err", value |-> "not ReturnPacket"]

try_evaluate_match_kind ==
    /\ epc = "e_match_kind"
    /\ TryEvaluateEnds(match_kind(return_packet[1]))
    /\ UNCHANGED <<via, esteps, packet, return_packet>>
    /\ engineFrame

\* evaluate: match self.try_evaluate(expr) { Ok(returned) => returned,
\* Err(msg) => panic!(..) }
evaluate_match ==
    /\ epc = "e_evaluate_match"
    /\ evalResult' = IF tryResult.tag = "Ok"
                       THEN [tag |-> "value", value |-> tryResult.value]
                       ELSE [tag |-> "panic", value |-> "evaluate"]
    /\ epc' = "idle"
    /\ UNCHANGED <<via, esteps, packet, return_packet, tryResult>>
    /\ engineFrame

Next ==
    \/ HostCallsNative
    \/ HostCallsWstp
    \/ HostCallsInit
    \/ initialize
    \/ native_argc
    \/ native_call
    \/ init_call
    \/ wstp_call
    \/ write_panic_clear_error
    \/ write_panic_is_ready
    \/ write_panic_raw_get_next
    \/ write_panic_new_packet
    \/ write_panic_put_expr

Spec == Init /\ [][Next]_vars

NextLoader ==
    \/ HostCallsLoader
    \/ initialize
    \/ loader_test_head
    \/ loader_arg_count
    \/ loader_get_string
    \/ loader_load_expr
    \/ loader_put_expr
    \/ write_panic_clear_error
    \/ write_panic_is_ready
    \/ write_panic_raw_get_next
    \/ write_panic_new_packet
    \/ write_panic_put_expr

SpecLoader == InitLoader /\ [][NextLoader]_vars

NextEngine ==
    \/ UserCallsEvaluate
    \/ try_evaluate_put_expr
    \/ process_wstp_link
    \/ try_evaluate_get_expr
    \/ try_evaluate_match_kind
    \/ evaluate_match

SpecEngine == InitEngine /\ [][NextEngine]_vars

NextWatcher ==
    \/ HostCallsStartFileWatcher
    \/ sfw_args
    \/ sfw_initialize
    \/ sfw_interval
    \/ sfw_path
    \/ sfw_spawn
    \/ sfw_return
    \/ thread_start
    \/ thread_is_alive
    \/ thread_check_for_modification
    \/ thread_data_store_new
    \/ thread_add_i64
    \/ thread_raise_async_event
    \/ thread_sleep
    \/ HostRetiresTask
    \/ FileModified
    \/ FileRemoved

SpecWatcher == InitWatcher /\ [][NextWatcher]_vars

\* The task's thread is an operating-system thread of its own: the scheduler
\* keeps running it while it has a step to take.
SpecWatcherFair == SpecWatcher /\ WF_vars(file_watch_thread_function)


\* ------------------------------------------------------------------------
\* The claims
\* ------------------------------------------------------------------------

\* The current call has returned a status code to the host.
Returned == pc = "idle" /\ Len(ret) = 1

Status == ret[1]

Range(q) == {q[i] : i \in 1..Len(q)}

\* The user function of the call that has returned ended in a captured panic.
Faulted == Returned /\ userOutcome = "panic"

\* The failure value was written on the link in this call.
FailureWritten == "failure" \in Range(replies)

\* C1 (as claimed): no call of an entry point ends with a panic leaving the
\* function, by unwinding into the host or by aborting the process: every
\* call that was started returns a status code.
C1_NoPanicEscapes == hostFate \notin EscapedPanicFates

C3_DistinctStatusPerClass ==
    \A a \in seen, b \in seen : a[1] # b[1] => a[2] # b[2]

\* C4: when initialize failed, the call has returned FAILED_TO_INIT without
\* invoking the user function, without reading the argument cells and without
\* any operation on the link; and user code has run in a call only if
\* initialize succeeded in that call.
C4_InitFailureFailsFast ==
    kind \in {"native", "wstp", "init"} =>
        /\ initResult = "err" =>
              /\ Returned
              /\ Status = FAILED_TO_INIT
              /\ userCalls = 0
              /\ userOutcome = "none"
              /\ ~argsRead
              /\ ~linkTouched
              /\ recov = <<>>
              /\ replies = <<>>
        /\ userCalls > 0 => initResult = "ok"

\* C4 witness: a structured-transport call with a message waiting on the link
\* has returned because initialize failed.
C4_Witness ==
    /\ kind = "wstp"
    /\ initResult = "err"
    /\ Returned
    /\ unread > 0

\* C5: in write_panic_failure_to_link the error is cleared first; the
\* remainder is discarded (raw_get_next, then new_packet) exactly when
\* is_ready found unread data; and the failure value is written only after
\* the clearing and, when there was unread data, after both discarding steps
\* succeeded.
C5_RecoveryOrder ==
    /\ recov # <<>> => (userOutcome = "panic" /\ recov[1][1] = "clear_error")
    /\ \A i \in 1..Len(recov) :
        /\ recov[i][1] = "is_ready" => i = 2
        /\ recov[i][1] = "raw_get_next" =>
              (i = 3 /\ recov[2] = <<"is_ready", TRUE>>)
        /\ recov[i][1] = "new_packet" =>
              (i = 4 /\ recov[3] = <<"raw_get_next", TRUE>>)
        /\ recov[i][1] = "put_expr" =>
              \/ (i = 3 /\ recov[2] = <<"is_ready", FALSE>>)
              \/ (i = 5 /\ recov[2] = <<"is_ready", TRUE>>
                        /\ recov[4] = <<"new_packet", TRUE>>)
    /\ FailureWritten => <<"put_expr", TRUE>> \in Range(recov)

\* C5 witness: the failure value was written after an unread remainder was
\* discarded.
C5_Witness ==
    /\ Faulted
    /\ FailureWritten
    /\ <<"new_packet", TRUE>> \in Range(recov)

\* C6 (as claimed): after a structured-transport call that faulted, the link
\* has no error condition set and holds no unread data.
C6_LinkCleanAfterFault ==
    (Faulted /\ kind = "wstp") => (~linkErr /\ unread = 0)

\* A step of write_panic_failure_to_link failed on the link.
ReportStepFailed ==
    \E i \in 1..Len(recov) :
        /\ recov[i][1] \in {"raw_get_next", "new_packet", "put_expr"}
        /\ ~recov[i][2]

\* C7: a structured-transport call whose user function panicked returns
\* LIBRARY_FUNCTION_ERROR when a step of reporting the fault failed, and
\* LIBRARY_NO_ERROR exactly when the failure value was written.
C7_ReportFailureIsGenericError ==
    (Faulted /\ kind = "wstp") =>
        /\ ReportStepFailed => Status = LIBRARY_FUNCTION_ERROR
        /\ (Status = LIBRARY_NO_ERROR) <=> FailureWritten
        /\ FailureWritten <=> ~ReportStepFailed

\* C7 witness: discarding the unread remainder failed after a panic.
C7_Witness ==
    /\ Faulted
    /\ kind = "wstp"
    /\ <<"new_packet", FALSE>> \in Range(recov)

\* The task's thread was past its liveness check, inside an iteration.
InIteration(p) == p \in {"t_poll", "t_new", "t_add", "t_raise", "t_sleep"}

Retired == tpc # "none" /\ ~alive

\* C8: a task's aliveness never goes back from false to true, and once the
\* thread's is_alive read has returned false every later read is false and
\* the thread posts no further event.
C8_AlivenessOneWay ==
    [][/\ Retired => ~alive'
       /\ lastAliveRead = "false" =>
            (lastAliveRead' = "false" /\ events' = events)]_vars

\* C8 witness: the thread has posted an event, has then read is_alive as
\* false, and a change of the file is left unreported.
C8_Witness ==
    /\ lastAliveRead = "false"
    /\ Len(events) = 1
    /\ modified(file) # <<>>
    /\ modified(file) # prev_changed

\* C9 (as claimed): once the task is retired it posts no further event.
C9_NoEventAfterRetire == [][Retired => events' = events]_vars

\* C9 (amended): once the task is retired it posts at most one further
\* event, and only if the retirement came while an iteration was in flight
\* (after the liveness check of that iteration).
C9_AtMostOneEventAfterRetire ==
    Retired =>
        /\ after.posts <= 1
        /\ after.posts = 1 => pcAtRetire \in {"t_poll", "t_new", "t_add", "t_raise"}

\* C9 witness: the task was retired between its is_alive check and its
\* raise_async_event call, and posted the event.
C9_Witness ==
    /\ Retired
    /\ pcAtRetire = "t_poll"
    /\ after.posts = 1

\* C10: after retirement the thread performs at most one more modification
\* check, one more post and one more sleep (those of the iteration in
\* flight, none if no iteration was in flight), and its next liveness check
\* ends the loop.
C10_AtMostOneIterationAfterRetire ==
    Retired =>
        /\ after.polls <= 1
        /\ after.posts <= 1
        /\ after.sleeps <= 1
        /\ after.checks <= 1
        /\ (after.checks = 1) <=> (tpc = "t_done")
        /\ ~InIteration(pcAtRetire) =>
              (after.polls = 0 /\ after.posts = 0 /\ after.sleeps = 0)

\* C10 witness: the thread finished a whole iteration after retirement and
\* then left the loop.
C10_Witness ==
    /\ Retired
    /\ tpc = "t_done"
    /\ after = [polls |-> 1, posts |-> 1, sleeps |-> 1, checks |-> 1]

ModificationSteps ==
    {"check_for_modification", "DataStore::new", "add_i64",
     "raise_async_event"}

\* C11: in every iteration of the loop, the first included, is_alive is read
\* before the modification check and before any event post, and those steps
\* run only in an iteration whose is_alive read returned true.
C11_AliveCheckedFirst ==
    \A i \in 1..Len(iterLog) :
        iterLog[i] \in ModificationSteps =>
            /\ i > 1
            /\ iterLog[1] = "is_alive"
            /\ lastAliveRead = "true"

C11_Witness ==
    /\ iterLog = <<"is_alive", "check_for_modification", "DataStore::new",
                   "add_i64", "raise_async_event">>
    /\ Len(events) = 1

\* C12: between two consecutive is_alive reads of a task the thread sleeps
\* exactly once, for the task's polling interval, whether or not the
\* iteration raised an event and however check_for_modification returned.
C12_OneSleepPerIteration ==
    (tpc = "t_alive" /\ iterLog # <<>>) => sleepMs = <<interval>>

C12_Witness ==
    /\ tpc = "t_alive"
    /\ iterLog = <<"is_alive", "check_for_modification", "sleep">>
    /\ modified(file) # <<>>
    /\ since_epoch(modified(file)[1]) = <<>>
    /\ sleepMs = <<interval>>

\* C13: a poll that finds the modification time equal to the one last
\* reported posts no event, so one change of the file's modification time
\* gives exactly one "change" event whatever the file's state was when the
\* task started: no two consecutive events report the same modification time.
C13_OneEventPerChange ==
    \A i \in 1..(Len(events) - 1) : events[i].time # events[i + 1].time

\* C15 (as claimed): a start_file_watcher call given an argument count other
\* than 2 has, once its argument check ran, returned LIBRARY_FUNCTION_ERROR
\* without spawning a task and without writing the result cell.
C15_ArityMismatchReturnsError ==
    (kind = "sfw" /\ argc # SfwArity /\ pc # "s_args") =>
        /\ Returned
        /\ Status = LIBRARY_FUNCTION_ERROR
        /\ spawned = 0
        /\ resCell = <<>>

\* C16 (as claimed): a function exported with export! returns
\* LIBRARY_FUNCTION_ERROR whenever the wrapped user function panicked.
C16_ExportPanicIsGenericError ==
    (Faulted /\ kind = "native") => Status = LIBRARY_FUNCTION_ERROR

\* The thread is inside file_watch_thread_function and the model follows it.
ThreadRunning ==
    /\ tpc \notin {"none", "t_done"}
    /\ ~(tpc = "t_poll" /\ Len(events) >= MaxEvents)

\* C18: start_file_watcher with valid arguments returns without waiting for
\* the thread: at its last statement the return is possible wherever the
\* thread is; the call that spawned a task returned LIBRARY_NO_ERROR with the
\* task's id in the result cell, wherever the thread is; and the thread goes
\* on taking steps after the call has returned.
C18_SpawnDoesNotBlock ==
    /\ pc = "s_res" => ENABLED sfw_return
    /\ (kind = "sfw" /\ Returned /\ spawned = 1) =>
          /\ Status = LIBRARY_NO_ERROR
          /\ resCell = <<taskId>>
          /\ ThreadRunning => ENABLED file_watch_thread_function

C18_Witness ==
    /\ kind = "sfw"
    /\ Returned
    /\ Status = LIBRARY_NO_ERROR
    /\ resCell = <<taskId>>
    /\ tpc = "t_start"

\* C20: under fair scheduling of the task's thread, once the task's
\* aliveness is false the thread leaves its loop and
\* file_watch_thread_function returns; the loop is never left while the
\* aliveness is true.
C20_RetiredThreadReturns ==
    /\ (Retired ~> tpc = "t_done")
    /\ [](tpc = "t_done" => ~alive)

C20_Witness ==
    /\ tpc = "t_done"
    /\ Len(events) = MaxEvents
    /\ pcAtRetire = "t_raise"

\* C19: FAILED_TO_INIT and FAILED_WITH_PANIC are above OFFSET, differ from
\* each other, from LIBRARY_NO_ERROR and from LIBRARY_FUNCTION_ERROR, and
\* init_with_user_function returns these same numbers after its cast to a
\* signed integer.
C19_WrapperCodesDistinctAndKept ==
    /\ FAILED_TO_INIT > OFFSET
    /\ FAILED_WITH_PANIC > OFFSET
    /\ FAILED_TO_INIT # FAILED_WITH_PANIC
    /\ {FAILED_TO_INIT, FAILED_WITH_PANIC}
         \cap {LIBRARY_NO_ERROR, LIBRARY_FUNCTION_ERROR} = {}
    /\ (kind = "init" /\ Returned) =>
          Status = CASE initResult = "err" -> FAILED_TO_INIT
                     [] userOutcome = "panic" -> FAILED_WITH_PANIC
                     [] OTHER -> LIBRARY_NO_ERROR

C19_Witness ==
    /\ kind = "init"
    /\ Returned
    /\ userOutcome = "panic"
    /\ Status = 1002
    /\ <<"init", 1001>> \in seen

\* The descriptor's loading_code succeeds: it is a Wstp function, or a Native
\* function whose signature is representable.
ProbeSucceeds(d) == d.variant = "Wstp" \/ d.signature = "Ok"

Probed == {i \in DOMAIN registry : ProbeSucceeds(registry[i])}

\* C14: the catalog library_function_load_expr builds has exactly one entry
\* for each registered descriptor whose loading_code succeeds and none for
\* the others, whatever the registry holds; a failing probe does not fail the
\* call, which goes on to write the catalog and return LIBRARY_NO_ERROR.
C14_CatalogIsTheProbedFunctions ==
    kind = "loader" =>
        /\ catalog # NoCatalog =>
              /\ catalog.head = "Association"
              /\ Len(catalog.fields) = Cardinality(Probed)
              /\ {catalog.fields[j].name : j \in DOMAIN catalog.fields}
                   = {registry[i].name : i \in Probed}
        /\ pc = "l_put_expr" => (catalog # NoCatalog /\ userOutcome = "none")
        /\ (Returned /\ userOutcome = "ok") =>
              /\ Status = LIBRARY_NO_ERROR
              /\ replies = <<"catalog">>
              /\ catalog # NoCatalog

C14_Witness ==
    /\ kind = "loader"
    /\ Len(registry) = 3
    /\ Cardinality(Probed) = 2
    /\ Returned
    /\ Status = LIBRARY_NO_ERROR
    /\ replies = <<"catalog">>
    /\ Len(catalog.fields) = 2

\* C17: a loader call that succeeded has read exactly the one message put on
\* the link, a List of exactly one string, and written exactly the catalog;
\* and a loader call that returned LIBRARY_NO_ERROR has written exactly one
\* reply, the catalog or the failure value.
C17_OneMessageOneReply ==
    kind = "loader" =>
        /\ (Returned /\ userOutcome = "ok") =>
              /\ msg = [head |-> "List", args |-> <<"String">>]
              /\ lreads = 2
              /\ unread = 0
              /\ replies = <<"catalog">>
        /\ (Returned /\ Status = LIBRARY_NO_ERROR) =>
              replies \in {<<"catalog">>, <<"failure">>}

\* C17 witness: a loader call has succeeded, having read the two tokens of a
\* List of one string, after an earlier call whose panic was answered with
\* the failure value.
C17_Witness ==
    /\ kind = "loader"
    /\ Returned
    /\ userOutcome = "ok"
    /\ Status = LIBRARY_NO_ERROR
    /\ lreads = 2
    /\ replies = <<"catalog">>
    /\ <<"fault", LIBRARY_NO_ERROR>> \in seen

PostedStores == {events[i].store : i \in 1..Len(events)}

\* C21: every event posted is a "change" event whose DataStore was built for
\* it and holds exactly one integer, the modification time in whole seconds
\* since the epoch, added before the post; a store handed to
\* raise_async_event is no longer held by the thread (so it is not added to
\* again), a posted event never changes, and no store is posted twice.
C21_FreshStoreWithOneInteger ==
    /\ [](/\ \A i \in 1..Len(events) :
               /\ events[i].name = "change"
               /\ Len(events[i].items) = 1
               /\ events[i].time >= 0
               /\ events[i].items[1] = events[i].time \div TicksPerSec
          /\ \A i, j \in 1..Len(events) :
               i # j => events[i].store # events[j].store
          /\ data # <<>> => data[1].id \notin PostedStores)
    /\ [][\A i \in 1..Len(events) :
            Len(events') >= i /\ events'[i] = events[i]]_vars

C21_Witness ==
    /\ Len(events) = 2
    /\ events[1].store # events[2].store
    /\ events[1].items # events[2].items
    /\ data # <<>>
    /\ data[1].items # <<>>

\* C22 (as claimed): a direct-value entry point checks initialization before
\* the argument count: no call of call_native_wolfram_library_function or of
\* start_file_watcher, whatever its (non-negative) argument count, has
\* returned an error without having run initialize.
C22_InitCheckedBeforeArgCount ==
    (/\ kind \in {"native", "sfw"}
     /\ argc >= 0
     /\ Returned
     /\ Status # LIBRARY_NO_ERROR) =>
        initResult # "none"

Occurrences(q, x) == Cardinality({i \in 1..Len(q) : q[i] = x})

PutAttempts == {i \in 1..Len(recov) : recov[i][1] = "put_expr"}

\* C23: within one structured-transport call the user function is invoked
\* at most once and the failure value is written at most once;
\* write_panic_failure_to_link runs only after the user function panicked,
\* never after it returned normally; and a failed attempt to write the
\* failure value ends the call, with no second attempt.
C23_NothingRetried ==
    kind = "wstp" =>
        /\ userCalls <= 1
        /\ Occurrences(replies, "failure") <= 1
        /\ Cardinality(PutAttempts) <= 1
        /\ recov # <<>> => (userCalls = 1 /\ userOutcome = "panic")
        /\ userOutcome = "ok" => (recov = <<>> /\ ~FailureWritten)
        /\ <<"put_expr", FALSE>> \in Range(recov) =>
              /\ Returned
              /\ Status = LIBRARY_FUNCTION_ERROR
              /\ ~FailureWritten
              /\ recov[Len(recov)] = <<"put_expr", FALSE>>

C23_Witness ==
    /\ kind = "wstp"
    /\ Returned
    /\ userCalls = 1
    /\ <<"put_expr", FALSE>> \in Range(recov)
    /\ Status = LIBRARY_FUNCTION_ERROR
    /\ <<"fault", LIBRARY_NO_ERROR>> \in seen

\* try_evaluate has ended in the current call.
TryEnded == tryResult.tag # "none"

\* The expression is ReturnPacket[e] for exactly one element e.
IsReturnPacketOfOne(e) ==
    e.kind = "Normal" /\ e.head = "ReturnPacket" /\ Len(e.contents) = 1

\* C24 (as claimed): once try_evaluate has read the reply, it ends with
\* Ok(e) when the reply is ReturnPacket[e] and with Err for every other
\* reply.
C24_OkOnlyForReturnPacket ==
    (TryEnded /\ return_packet # <<>>) =>
        IF IsReturnPacketOfOne(return_packet[1])
          THEN tryResult = [tag |-> "Ok",
                            value |-> return_packet[1].contents[1]]
          ELSE tryResult.tag = "Err"

StepNames == [i \in 1..Len(esteps) |-> esteps[i][1]]

\* C25 (as claimed): try_evaluate writes, then has the host process the
\* link, then reads; a failed step is its last step and makes it return Err;
\* and a call of evaluate has panicked exactly when its try_evaluate returned
\* Err.
C25_StepsInOrderAndEvaluatePanicsOnErr ==
    /\ \E n \in 0..3 :
         StepNames = SubSeq(<<"put_expr", "processWSLINK", "get_expr">>, 1, n)
    /\ \A i \in 1..Len(esteps) :
         ~esteps[i][2] =>
            (i = Len(esteps) /\ tryResult.tag = "Err"
               /\ tryResult.value = esteps[i][1])
    /\ (via = "evaluate" /\ epc = "idle") =>
         (evalResult.tag = "panic" <=> tryResult.tag = "Err")

\* C26 (as claimed): a call of call_native_wolfram_library_function returns
\* LIBRARY_NO_ERROR exactly when initialize succeeded, the argument count is
\* non-negative and the user function returned without panicking; and every
\* call with a negative argument count returns LIBRARY_FUNCTION_ERROR without
\* reading the argument cells or invoking the user function.
C26_NativeStatus ==
    (kind = "native" /\ Returned) =>
        /\ Status = LIBRARY_NO_ERROR <=>
              (initResult = "ok" /\ argc >= 0 /\ userOutcome = "ok")
        /\ argc < 0 =>
              (Status = LIBRARY_FUNCTION_ERROR /\ ~argsRead /\ userCalls = 0)

\* C26 (amended): LIBRARY_NO_ERROR is returned exactly when initialize
\* succeeded, the argument count is non-negative and the user function
\* returned without panicking; a negative argument count reads no argument
\* cell and invokes no user function, and returns LIBRARY_FUNCTION_ERROR when
\* initialize succeeded and FAILED_TO_INIT when it failed.
C26_NativeStatusAfterInit ==
    (kind = "native" /\ Returned) =>
        /\ Status = LIBRARY_NO_ERROR <=>
              (initResult = "ok" /\ argc >= 0 /\ userOutcome = "ok")
        /\ argc < 0 =>
              /\ ~argsRead
              /\ userCalls = 0
              /\ Status = IF initResult = "ok" THEN LIBRARY_FUNCTION_ERROR
                                               ELSE FAILED_TO_INIT

C26_Witness ==
    /\ kind = "native"
    /\ Returned
    /\ argc < 0
    /\ initResult = "ok"
    /\ Status = LIBRARY_FUNCTION_ERROR
    /\ <<"init", FAILED_TO_INIT>> \in seen

\* The message of the loader call is not a List of exactly one string.
Malformed == msg # [head |-> "List", args |-> <<"String">>]

\* The loader call got past initialize, has a malformed message and has
\* returned.
MalformedCallReturned ==
    kind = "loader" /\ Malformed /\ initResult = "ok" /\ Returned

\* C27 (as claimed): a loader call whose message is not a List of exactly
\* one string has, when it returns, written no catalog, had its panic
\* captured, discarded the unread remainder of the message and written the
\* failure value.
C27_MalformedMessageGetsFailure ==
    MalformedCallReturned =>
        /\ userOutcome = "panic"
        /\ catalog = NoCatalog
        /\ unread = 0
        /\ replies = <<"failure">>

\* C27 (amended): a loader call with a malformed message never builds or
\* writes a catalog and its panic is captured; when every recovery step on
\* the link succeeded the remainder was discarded, the failure value is the
\* one reply and the call returned LIBRARY_NO_ERROR; when a recovery step
\* failed nothing was written and the call returned LIBRARY_FUNCTION_ERROR.
C27_MalformedMessageGetsFailureOrError ==
    (kind = "loader" /\ Malformed) =>
        /\ catalog = NoCatalog
        /\ "catalog" \notin Range(replies)
        /\ pc \notin {"l_load_expr", "l_put_expr"}
        /\ MalformedCallReturned =>
              /\ userOutcome = "panic"
              /\ recov # <<>>
              /\ IF \A i \in 1..Len(recov) : recov[i][2] \/ recov[i][1] = "is_ready"
                   THEN /\ Status = LIBRARY_NO_ERROR
                        /\ replies = <<"failure">>
                        /\ unread = 0
                        /\ ~linkErr
                   ELSE /\ Status = LIBRARY_FUNCTION_ERROR
                        /\ replies = <<>>

C27_Witness ==
    /\ MalformedCallReturned
    /\ msg.head = "Other"
    /\ Len(msg.args) = 2
    /\ <<"is_ready", TRUE>> \in Range(recov)
    /\ replies = <<"failure">>
    /\ unread = 0

\* A step of the thread is its poll (the call of check_for_modification).
PollStep == tpc = "t_poll" /\ tpc' # "t_poll"

\* C28 (as claimed): a poll that finds the file missing posts no event and
\* leaves the recorded modification time unchanged; a poll that finds the
\* file (again) makes the thread post an event exactly when the file's
\* modification time differs from the recorded one.
C28_MissingFileKeepsRecordedTime ==
    [][PollStep =>
         /\ file = <<>> =>
               /\ prev_changed' = prev_changed
               /\ modification' = <<>>
               /\ tpc' = "t_sleep"
               /\ events' = events
         /\ (file # <<>> /\ prev_changed # <<>> /\ modifiedOk) =>
               /\ tpc' = IF file # prev_changed THEN "t_new" ELSE "t_sleep"
               /\ prev_changed' = file]_vars

\* C28 (amended): as above, but the thread posts the event for a changed
\* modification time only when that time is not before the Unix epoch; a
\* changed time before the epoch is recorded and no event is posted.
C28_MissingFileKeepsRecordedTimeSinceEpoch ==
    [][PollStep =>
         /\ file = <<>> =>
               /\ prev_changed' = prev_changed
               /\ modification' = <<>>
               /\ tpc' = "t_sleep"
               /\ events' = events
         /\ (file # <<>> /\ prev_changed # <<>> /\ modifiedOk) =>
               /\ tpc' = IF file # prev_changed /\ file[1] >= 0
                           THEN "t_new" ELSE "t_sleep"
               /\ tpc' = "t_new" =>
                     modification' = <<file[1] \div TicksPerSec>>
               /\ prev_changed' = file
               /\ events' = events]_vars

\* C28 witness: after a poll found the file missing with a time recorded,
\* the file is back with another modification time and the thread has posted
\* its one event for it; the poll after that found nothing new.
C28_Witness ==
    /\ missed
    /\ file # <<>>
    /\ prev_changed = file
    /\ Len(events) = 1
    /\ events[1].time = file[1]
    /\ iterLog = <<"is_alive", "check_for_modification">>
    /\ tpc = "t_sleep"

\* C29: a start_file_watcher call spawns at most one task, and a task has
\* been spawned only in a call that then writes the result cell and returns
\* LIBRARY_NO_ERROR: a call that returned an error status (wrong argument
\* count, failed initialize, path not valid UTF-8) spawned no task, started
\* no thread and left the result cell unwritten.
C29_SpawnOnlyOnSuccess ==
    kind = "sfw" =>
        /\ spawned <= 1
        /\ spawned = 1 =>
              \/ pc = "s_res"
              \/ (Returned /\ Status = LIBRARY_NO_ERROR
                           /\ resCell = <<taskId>>)
        /\ (Returned /\ Status # LIBRARY_NO_ERROR) =>
              /\ spawned = 0
              /\ tpc = "none"
              /\ resCell = <<>>
        /\ resCell # <<>> => spawned = 1

C29_Witness ==
    /\ kind = "sfw"
    /\ Returned
    /\ Status = LIBRARY_FUNCTION_ERROR
    /\ argc = SfwArity
    /\ initResult = "ok"
    /\ interval >= 0
    /\ ~pathUtf8
    /\ spawned = 0
    /\ resCell = <<>>

====
